---- MODULE Spec2Model ----
(***************************************************************************)
(* Model of packages/sst/support/nodejs-runtime/index.ts: the worker that  *)
(* resolves a handler, then loops polling the Lambda runtime API, calling  *)
(* the handler and delivering its result, under a 15 minute timer.         *)
(*                                                                         *)
(* One action of the model is one turn of the Node event loop: everything  *)
(* the program does between two suspension points (await).  HTTP requests  *)
(* are kept in `inflight' until the endpoint answers them (resolve) or the *)
(* transport fails (reject); an endpoint that never answers is a behaviour *)
(* that stops taking steps.  Time is counted in milliseconds.              *)
(***************************************************************************)
EXTENDS FiniteSets, Integers, Sequences, TLC

\* ---------------------------------------------------------------- bounds
\* Total number of GET /runtime/invocation/next requests in one execution.
MaxPolls == 3
\* Failed passes of the response retry loop for one invocation.
MaxRespFail == 2
\* Largest amount of time one Advance step lets pass.
TimeStep == 450000

\* ------------------------------------------------------ program constants
IdleWindowMs == 900000
RetryDelayMs == 500

\* -------------------------------------------------------------- JS values
\* The value `undefined' (an absent header, an unset variable).
UNDEFINED == "<undefined>"
\* No timer armed / no exit code yet.
NoTimer == -1
NoExit == -1

Min(a, b) == IF a <= b THEN a ELSE b

\* ------------------------------------------------------ handler resolution
Exts == <<".js", ".jsx", ".mjs", ".cjs">>
ExtSet == {Exts[i] : i \in 1..Len(Exts)}

\* [...].map(join).find(existsSync): the first candidate that exists, or
\* undefined when none does.
RECURSIVE FindFrom(_, _)
FindFrom(i, existing) ==
    IF i > Len(Exts) THEN UNDEFINED
    ELSE IF Exts[i] \in existing THEN Exts[i]
    ELSE FindFrom(i + 1, existing)

FindFile(existing) == FindFrom(1, existing)

\* What evaluating the compiled module does, once the loader accepts it.
Modules == {"good", "noExport", "throwsError", "throwsNullish"}

\* Values a `catch (ex)' can receive.  message/stack are what ex.message and
\* ex.stack evaluate to; for null and undefined the property read throws.
ErrorObj(msg) == [kind |-> "error", message |-> msg, stack |-> "stack"]
ThrownString == [kind |-> "string", message |-> UNDEFINED, stack |-> UNDEFINED]
ThrownNullish == [kind |-> "nullish", message |-> UNDEFINED, stack |-> UNDEFINED]
\* An object whose stack is truthy and not a string: ex.stack?.split is not
\* a function.
ThrownBadStack == [kind |-> "badstack", message |-> "m", stack |-> "<number>"]
NoThrow == [kind |-> "none", message |-> UNDEFINED, stack |-> UNDEFINED]

\* Extensions import() refuses before it reads the file: the worker
\* registers no loader, and Node's own one knows .js, .mjs and .cjs.
UnknownExts == {".jsx"}

\* The body of the first try block: the value it throws, or NoThrow.
\* pathToFileURL(undefined) throws; import() of an unknown extension rejects
\* with ERR_UNKNOWN_FILE_EXTENSION whatever the file contains; otherwise the
\* module is evaluated and the export looked up.
ResolutionThrows(f, m) ==
    IF f = UNDEFINED THEN ErrorObj("ERR_INVALID_ARG_TYPE")
    ELSE IF f \in UnknownExts THEN ErrorObj("Unknown file extension")
    ELSE IF m = "throwsError" THEN ErrorObj("load failed")
    ELSE IF m = "throwsNullish" THEN ThrownNullish
    ELSE IF m = "noExport" THEN ErrorObj("Function not found")
    ELSE NoThrow

\* JSON.stringify({errorType, errorMessage: ex.message, trace: ...}):
\* reading a property of null/undefined throws a TypeError, and so does
\* calling split on a stack that has none.
ErrorBodyThrows(ex) == ex.kind \in {"nullish", "badstack"}
\* The fields of the report that survive JSON.stringify (an undefined
\* errorMessage is left out).
ErrorBody(ex) ==
    IF ex.message = UNDEFINED THEN <<"Error">> ELSE <<"Error", ex.message>>

\* ------------------------------------------------------------ poll replies
ReqIdHeaders == {"r1", "r2", UNDEFINED}
ArnHeaders == {"arnA", "arnB"}
Bodies == {"{\"name\":\"x\"}", "42", "<html>"}

\* A parse that falls back to the raw text instead of throwing.
JSONparseLenient(body) ==
    IF body = "{\"name\":\"x\"}" THEN "obj{name:x}"
    ELSE IF body = "42" THEN "num42"
    ELSE "raw"

\* JSON.parse: the parsed value, or "SyntaxError" when it throws.
JSONparse(body) ==
    IF body = "{\"name\":\"x\"}" THEN "obj{name:x}"
    ELSE IF body = "42" THEN "num42"
    ELSE "SyntaxError"

\* res.statusCode of a reply.
StatusCodes == {200, 500}

PollResults ==
    [statusCode : StatusCodes, reqId : ReqIdHeaders, arn : ArnHeaders,
     body : Bodies]

\* `${value}' in a template literal.
TemplateStr(v) == IF v = UNDEFINED THEN "undefined" ELSE v

EmptyContext == [awsRequestId |-> UNDEFINED, invokedFunctionArn |-> UNDEFINED]

NewContextSwapped(result) ==
    [awsRequestId |-> result.arn, invokedFunctionArn |-> result.reqId]

\* Both fields read from the request-id header.
NewContextOneHeader(result) ==
    [awsRequestId |-> result.reqId, invokedFunctionArn |-> result.reqId]

NewContext(result) ==
    [awsRequestId |-> result.reqId, invokedFunctionArn |-> result.arn]

\* The global set from the other context field.
GlobalRequestIdFromArn(ctx) == ctx.invokedFunctionArn

\* Lines 114-115: the value stored under
\* Symbol.for("aws.lambda.runtime.requestId").
GlobalRequestId(ctx) == ctx.awsRequestId

\* -------------------------------------------------------------- requests
NextPath == <<"runtime", "invocation", "next">>
InitErrorPath == <<"runtime", "init", "error">>
ErrorPath(ctx) ==
    <<"runtime", "invocation", TemplateStr(ctx.awsRequestId), "error">>
ResponsePath(ctx) ==
    <<"runtime", "invocation", TemplateStr(ctx.awsRequestId), "response">>

\* fetch(req): the body is written only when it is truthy (line 53); a
\* request is modelled with the sequence of things written.
NoBody == <<>>
WrittenBody(b) == IF b = UNDEFINED THEN NoBody ELSE <<b>>
Req(m, p, b) == [method |-> m, path |-> p, body |-> b]

\* ------------------------------------------------------- handler outcomes
RetVals == {"obj{ok:true}", "undefined", "circular"}
Thrown == {ErrorObj("boom"), ThrownString, ThrownNullish, ThrownBadStack}

\* JSON.stringify(response): the text, undefined for undefined, or
\* "TypeError" when it throws (circular structure, BigInt).
JSONstringify(v) ==
    IF v = "obj{ok:true}" THEN "{\"ok\":true}"
    ELSE IF v = "undefined" THEN UNDEFINED
    ELSE "TypeError"

\* ------------------------------------------------------------------ state
VARIABLES
    exists,      \* extensions for which <out>/<dir>/<name><ext> exists
    module,      \* what importing the file does
    file,        \* const file (lines 11-15)
    pc,          \* the await the program is suspended at
    inflight,    \* HTTP requests sent and not yet answered
    context,     \* let context
    request,     \* let request
    response,    \* let response
    globalReqId, \* global[Symbol.for("aws.lambda.runtime.requestId")]
    handlerSync, \* the running handler call blocks the event loop
    timer,       \* ms until the timeout callback is due, NoTimer if none
    delayLeft,   \* ms until the 500 ms sleep resolves, NoTimer if none
    exitCode,    \* exit code of the worker, NoExit while it runs
    nPolls,      \* GET /runtime/invocation/next requests sent
    nInitErr,    \* POST /runtime/init/error requests sent
    inv,         \* history of the latest invocation (observation only)
    idleMs,      \* ms since the loop last had no invocation to wait for
    exitFrom,    \* pc at the moment the worker ended
    nArmed       \* 15 minute timeouts set and neither cleared nor run

vars == <<exists, module, file, pc, inflight, context, request, response,
          globalReqId, handlerSync, timer, delayLeft, exitCode, nPolls,
          nInitErr, inv, idleMs, exitFrom, nArmed>>

loopVars == <<context, request, response, globalReqId, handlerSync>>
fsVars == <<exists, module, file>>

NoInvocation ==
    [hdr |-> UNDEFINED, arn |-> UNDEFINED, body |-> UNDEFINED,
     polled |-> FALSE, pollFails |-> 0, alive |-> FALSE, outcome |-> "none",
     thrown |-> NoThrow, nCalls |-> 0, nErr |-> 0, errFailed |-> FALSE,
     nResp |-> 0, nRespFail |-> 0, nRespOk |-> 0, failAt |-> NoTimer,
     pollStatus |-> 0, respStatus |-> 0, sent |-> Req("", <<>>, NoBody)]

\* The state once lines 9-17 have run, for the given file systems.
InitWith(fileSystems) ==
    /\ exists \in fileSystems
    /\ module \in Modules
    /\ file = FindFile(exists)
    /\ pc = "resolve"
    /\ inflight = {}
    /\ context = EmptyContext
    /\ request = UNDEFINED
    /\ response = UNDEFINED
    /\ globalReqId = UNDEFINED
    /\ handlerSync = FALSE
    /\ timer = NoTimer
    /\ delayLeft = NoTimer
    /\ exitCode = NoExit
    /\ nPolls = 0
    /\ nInitErr = 0
    /\ inv = NoInvocation
    /\ idleMs = 0
    /\ exitFrom = "none"
    /\ nArmed = 0

\* The file systems the invocation loop is explored with: no candidate, the
\* first one, two later ones, and one whose first candidate cannot be
\* imported.
FsCases == {{}, {".js"}, {".mjs", ".cjs"}, {".jsx", ".cjs"}}

Init == InitWith(FsCases)

\* Every set of existing candidates, for handler resolution on its own.
InitResolve == InitWith(SUBSET ExtSet)

\* ----------------------------------------------------- ends of the worker
\* process.exit(code): the worker stops; nothing runs afterwards.
ProcessExit(code) ==
    /\ pc' = "exited"
    /\ exitCode' = code
    /\ exitFrom' = pc
    /\ timer' = NoTimer
    /\ delayLeft' = NoTimer
    /\ nArmed' = 0

\* An exception nobody catches rejects the module's top-level await: the
\* worker ends with an 'error' event and exit code 1.
Uncaught ==
    /\ pc' = "crashed"
    /\ exitCode' = 1
    /\ exitFrom' = pc
    /\ timer' = NoTimer
    /\ delayLeft' = NoTimer
    /\ nArmed' = 0

\* A top-level await whose promise never settles while no timer, socket or
\* other handle is left: the event loop runs empty and the worker ends by
\* itself with exit code 13, with no 'error' event and no process.exit.
UnsettledTopLevelAwait ==
    /\ pc' = "unsettled"
    /\ exitCode' = 13
    /\ exitFrom' = pc
    /\ timer' = NoTimer
    /\ delayLeft' = NoTimer
    /\ nArmed' = 0

\* ------------------------------------------------------------- loop top
\* Line 89 left out: the earlier timeout stays armed.
ClearTimeoutMissing(n) == n

\* Line 89, if (timeout) clearTimeout(timeout): of n armed timeouts, the one
\* `timeout' refers to is cancelled if it is still armed.
ClearTimeout(n) == IF timer # NoTimer THEN n - 1 ELSE n

\* The loop head with the timeout set once only: if (!timeout) setTimeout.
LoopTopArmOnce(outstanding) ==
    /\ nPolls < MaxPolls
    /\ pc' = "poll"
    /\ timer' = IF timer = NoTimer THEN IdleWindowMs ELSE timer
    /\ nArmed' = 1
    /\ delayLeft' = NoTimer
    /\ context' = EmptyContext
    /\ request' = UNDEFINED
    /\ response' = UNDEFINED
    /\ inflight' = outstanding \cup {Req("GET", NextPath, NoBody)}
    /\ nPolls' = nPolls + 1
    /\ UNCHANGED <<exitCode, exitFrom>>

\* Lines 88-105: clearTimeout, setTimeout(15 min), fresh locals, send poll.
LoopTop(outstanding) ==
    /\ nPolls < MaxPolls
    /\ pc' = "poll"
    /\ timer' = IdleWindowMs
    /\ nArmed' = ClearTimeout(nArmed) + 1
    /\ delayLeft' = NoTimer
    /\ context' = EmptyContext
    /\ request' = UNDEFINED
    /\ response' = UNDEFINED
    /\ inflight' = outstanding \cup {Req("GET", NextPath, NoBody)}
    /\ nPolls' = nPolls + 1
    /\ UNCHANGED <<exitCode, exitFrom>>

\* ------------------------------------------------------------ resolution
\* Lines 58-70 succeed: fn is set and the loop is entered.
ResolveOk ==
    /\ pc = "resolve"
    /\ ResolutionThrows(file, module) = NoThrow
    /\ LoopTop({})
    /\ idleMs' = 0
    /\ UNCHANGED <<fsVars, globalReqId, handlerSync, nInitErr, inv>>

\* Lines 71-83: the catch block builds the report and sends it.
ResolveFails ==
    /\ pc = "resolve"
    /\ LET ex == ResolutionThrows(file, module) IN
        /\ ex # NoThrow
        /\ IF ErrorBodyThrows(ex)
           THEN /\ Uncaught
                /\ UNCHANGED <<inflight, nInitErr>>
           ELSE /\ pc' = "initErr"
                /\ inflight' = {Req("POST", InitErrorPath, ErrorBody(ex))}
                /\ nInitErr' = nInitErr + 1
                /\ UNCHANGED <<exitCode, exitFrom, timer, nArmed, delayLeft>>
    /\ UNCHANGED <<fsVars, loopVars, nPolls, inv, idleMs>>

\* Line 72 resolves and process.exit(1) is missing: the loop is entered.
InitErrorResolvesNoExit ==
    /\ pc = "initErr"
    /\ \E r \in inflight :
        /\ r.path = InitErrorPath
        /\ LoopTop(inflight \ {r})
    /\ UNCHANGED <<fsVars, globalReqId, handlerSync, nInitErr, inv, idleMs>>

\* Line 72 resolves, line 84: process.exit(1).
InitErrorResolves ==
    /\ pc = "initErr"
    /\ \E r \in inflight :
        /\ r.path = InitErrorPath
        /\ inflight' = inflight \ {r}
    /\ ProcessExit(1)
    /\ UNCHANGED <<fsVars, loopVars, nPolls, nInitErr, inv, idleMs>>

\* Line 72 rejects inside the catch block: nothing catches it.
InitErrorRejects ==
    /\ pc = "initErr"
    /\ \E r \in inflight :
        /\ r.path = InitErrorPath
        /\ inflight' = inflight \ {r}
    /\ Uncaught
    /\ UNCHANGED <<fsVars, loopVars, nPolls, nInitErr, inv, idleMs>>

\* The reply to line 72 is cut after its head: the response emits 'aborted',
\* never 'end' (line 45), and the request emits no 'error' (line 52), so the
\* promise of fetch stays pending.  No timer is armed before the loop, the
\* closed socket was the last handle: the worker ends on the pending await.
InitErrorNeverSettles ==
    /\ pc = "initErr"
    /\ timer = NoTimer
    /\ \E r \in inflight :
        /\ r.path = InitErrorPath
        /\ inflight' = inflight \ {r}
    /\ UnsettledTopLevelAwait
    /\ UNCHANGED <<fsVars, loopVars, nPolls, nInitErr, inv, idleMs>>

\* ------------------------------------------------------------------ poll
\* Lines 101-118 with fn(request, context) not awaited: the response POST
\* is sent while the handler call is still in progress.
PollResolvesNoAwaitFn(result, sync) ==
    /\ pc = "poll"
    /\ JSONparse(result.body) # "SyntaxError"
    /\ \E r \in inflight :
        /\ r.path = NextPath
        /\ inflight' = (inflight \ {r}) \cup
               {Req("POST", ResponsePath(NewContext(result)), <<"{}">>)}
    /\ pc' = "respPost"
    /\ context' = NewContext(result)
    /\ request' = JSONparse(result.body)
    /\ globalReqId' = result.reqId
    /\ handlerSync' = sync
    /\ inv' = [NoInvocation EXCEPT !.hdr = result.reqId, !.arn = result.arn,
                                   !.body = result.body, !.polled = TRUE,
                                   !.alive = TRUE, !.nCalls = 1,
                                   !.outcome = "running", !.nResp = 1]
    /\ idleMs' = 0
    /\ UNCHANGED <<fsVars, response, timer, nArmed, delayLeft, exitCode, exitFrom,
                   nPolls, nInitErr>>

\* Lines 101-118: the poll resolves; context and request are set, and
\* either JSON.parse throws (continue) or the handler is called.
PollResolves(result, sync) ==
    /\ pc = "poll"
    /\ \E r \in inflight :
        /\ r.path = NextPath
        /\ LET parsed == JSONparse(result.body)
               ctx == NewContext(result)
               polled == [NoInvocation EXCEPT !.hdr = result.reqId,
                                              !.pollStatus = result.statusCode,
                                              !.arn = result.arn,
                                              !.body = result.body,
                                              !.polled = TRUE]
           IN IF parsed = "SyntaxError"
              THEN /\ LoopTop(inflight \ {r})
                   /\ inv' = polled
                   /\ UNCHANGED <<globalReqId, handlerSync>>
              ELSE /\ pc' = "invoke"
                   /\ inflight' = inflight \ {r}
                   /\ context' = ctx
                   /\ request' = parsed
                   /\ globalReqId' = GlobalRequestId(ctx)
                   /\ handlerSync' = sync
                   /\ inv' = [polled EXCEPT !.alive = TRUE, !.nCalls = 1,
                                            !.outcome = "running"]
                   /\ UNCHANGED <<response, timer, nArmed, delayLeft, exitCode,
                                  exitFrom, nPolls>>
    /\ idleMs' = 0
    /\ UNCHANGED <<fsVars, nInitErr>>

\* The poll rejects with no catch around it.
PollRejectsUncaught ==
    /\ pc = "poll"
    /\ \E r \in inflight :
        /\ r.path = NextPath
        /\ inflight' = inflight \ {r}
    /\ Uncaught
    /\ inv' = [inv EXCEPT !.pollFails = inv.pollFails + 1]
    /\ UNCHANGED <<fsVars, loopVars, nPolls, nInitErr, idleMs>>

\* Lines 111-113: the poll rejects; continue.
PollRejects ==
    /\ pc = "poll"
    /\ \E r \in inflight :
        /\ r.path = NextPath
        /\ LoopTop(inflight \ {r})
    /\ inv' = [inv EXCEPT !.pollFails = inv.pollFails + 1]
    /\ UNCHANGED <<fsVars, globalReqId, handlerSync, nInitErr, idleMs>>

\* ------------------------------------------------------------- delivery
\* Lines 136-149, one pass of the retry loop up to its await: stringify
\* and send, or (stringify threw) log and sleep.
TryPostResponse(v) ==
    IF JSONstringify(v) = "TypeError"
    THEN /\ inv.nRespFail < MaxRespFail
         /\ pc' = "delay"
         /\ delayLeft' = RetryDelayMs
         /\ inflight' = inflight
         /\ inv' = [inv EXCEPT !.outcome = "returned",
                               !.nRespFail = inv.nRespFail + 1,
                               !.failAt = timer]
    ELSE /\ pc' = "respPost"
         /\ delayLeft' = NoTimer
         /\ inflight' = inflight \cup
                {Req("POST", ResponsePath(context),
                     WrittenBody(JSONstringify(v)))}
         /\ inv' = [inv EXCEPT !.outcome = "returned",
                               !.nResp = inv.nResp + 1,
                               !.sent = Req("POST", ResponsePath(context),
                                            WrittenBody(JSONstringify(v)))]

\* Line 118 returns a value.
HandlerReturns(v) ==
    /\ pc = "invoke"
    /\ response' = v
    /\ TryPostResponse(v)
    /\ UNCHANGED <<fsVars, context, request, globalReqId, handlerSync, timer, nArmed,
                   exitCode, exitFrom, nPolls, nInitErr, idleMs>>

\* Lines 119-131 without the await: the report is sent and the loop goes on.
HandlerThrowsNoAwait(ex) ==
    /\ pc = "invoke"
    /\ ~ErrorBodyThrows(ex)
    /\ LoopTop(inflight \cup {Req("POST", ErrorPath(context), ErrorBody(ex))})
    /\ inv' = [inv EXCEPT !.outcome = "threw", !.thrown = ex,
                          !.nErr = inv.nErr + 1]
    /\ UNCHANGED <<fsVars, globalReqId, handlerSync, nInitErr, idleMs>>

\* Lines 119-131: the handler call throws (or its promise rejects) with ex.
HandlerThrows(ex) ==
    /\ pc = "invoke"
    /\ IF ErrorBodyThrows(ex)
       THEN /\ Uncaught
            /\ inv' = [inv EXCEPT !.outcome = "threw", !.thrown = ex]
            /\ UNCHANGED inflight
       ELSE /\ pc' = "errPost"
            /\ inflight' = inflight \cup
                   {Req("POST", ErrorPath(context), ErrorBody(ex))}
            /\ inv' = [inv EXCEPT !.outcome = "threw", !.thrown = ex,
                                  !.nErr = inv.nErr + 1]
            /\ UNCHANGED <<exitCode, exitFrom, timer, nArmed, delayLeft>>
    /\ UNCHANGED <<fsVars, loopVars, nPolls, nInitErr, idleMs>>

\* Line 120 resolves and `continue' is missing: control falls into the
\* response retry loop.
ErrorPostResolvesNoContinue ==
    /\ pc = "errPost"
    /\ \E r \in inflight :
        /\ r.path = ErrorPath(context)
        /\ inflight' = (inflight \ {r}) \cup
               {Req("POST", ResponsePath(context), NoBody)}
    /\ pc' = "respPost"
    /\ inv' = [inv EXCEPT !.nResp = inv.nResp + 1]
    /\ UNCHANGED <<fsVars, loopVars, timer, nArmed, delayLeft, exitCode, exitFrom,
                   nPolls, nInitErr, idleMs>>

\* Line 120 resolves, line 132: continue.
ErrorPostResolves ==
    /\ pc = "errPost"
    /\ \E r \in inflight :
        /\ r.path = ErrorPath(context)
        /\ LoopTop(inflight \ {r})
    /\ inv' = [inv EXCEPT !.alive = FALSE]
    /\ UNCHANGED <<fsVars, globalReqId, handlerSync, nInitErr, idleMs>>

\* Line 120 rejects inside the catch block: nothing catches it.
ErrorPostRejects ==
    /\ pc = "errPost"
    /\ \E r \in inflight :
        /\ r.path = ErrorPath(context)
        /\ inflight' = inflight \ {r}
    /\ Uncaught
    /\ inv' = [inv EXCEPT !.errFailed = TRUE]
    /\ UNCHANGED <<fsVars, loopVars, nPolls, nInitErr, idleMs>>

\* Line 137 resolves and a status of 400 or more is taken for a failure.
ResponsePostResolvesChecksStatus(status) ==
    /\ pc = "respPost"
    /\ \E r \in inflight :
        /\ r.path = ResponsePath(context)
        /\ IF status >= 400
           THEN /\ inv.nRespFail < MaxRespFail
                /\ inflight' = inflight \ {r}
                /\ pc' = "delay"
                /\ delayLeft' = RetryDelayMs
                /\ inv' = [inv EXCEPT !.nRespFail = inv.nRespFail + 1,
                                      !.failAt = timer,
                                      !.respStatus = status]
                /\ UNCHANGED <<context, request, response, timer, nArmed,
                               exitCode, exitFrom, nPolls>>
           ELSE /\ LoopTop(inflight \ {r})
                /\ inv' = [inv EXCEPT !.alive = FALSE,
                                      !.nRespOk = inv.nRespOk + 1,
                                      !.respStatus = status]
    /\ UNCHANGED <<fsVars, globalReqId, handlerSync, nInitErr, idleMs>>

\* Line 137 resolves with whatever status, line 145: break; the outer loop
\* starts over.
ResponsePostResolves(status) ==
    /\ pc = "respPost"
    /\ \E r \in inflight :
        /\ r.path = ResponsePath(context)
        /\ LoopTop(inflight \ {r})
    /\ inv' = [inv EXCEPT !.alive = FALSE, !.nRespOk = inv.nRespOk + 1,
                          !.respStatus = status]
    /\ UNCHANGED <<fsVars, globalReqId, handlerSync, nInitErr, idleMs>>

\* Line 137 rejects and the sleep has no duration.
ResponsePostRejectsNoDelay ==
    /\ pc = "respPost"
    /\ inv.nRespFail < MaxRespFail
    /\ \E r \in inflight :
        /\ r.path = ResponsePath(context)
        /\ inflight' = inflight \ {r}
    /\ pc' = "delay"
    /\ delayLeft' = 0
    /\ inv' = [inv EXCEPT !.nRespFail = inv.nRespFail + 1,
                          !.failAt = timer]
    /\ UNCHANGED <<fsVars, loopVars, timer, nArmed, exitCode, exitFrom, nPolls,
                   nInitErr, idleMs>>

\* Line 137 rejects, lines 146-148: log and sleep 500 ms.
ResponsePostRejects ==
    /\ pc = "respPost"
    /\ inv.nRespFail < MaxRespFail
    /\ \E r \in inflight :
        /\ r.path = ResponsePath(context)
        /\ inflight' = inflight \ {r}
    /\ pc' = "delay"
    /\ delayLeft' = RetryDelayMs
    /\ inv' = [inv EXCEPT !.nRespFail = inv.nRespFail + 1,
                          !.failAt = timer]
    /\ UNCHANGED <<fsVars, loopVars, timer, nArmed, exitCode, exitFrom, nPolls,
                   nInitErr, idleMs>>

\* Line 148 resolves and the outer loop is continued instead of the retry
\* loop: a new poll is sent.
DelayDoneContinue ==
    /\ pc = "delay"
    /\ delayLeft = 0
    /\ LoopTop(inflight)
    /\ UNCHANGED <<fsVars, globalReqId, handlerSync, nInitErr, inv, idleMs>>

\* Line 148 resolves: the retry loop goes round.
DelayDone ==
    /\ pc = "delay"
    /\ delayLeft = 0
    /\ TryPostResponse(response)
    /\ UNCHANGED <<fsVars, loopVars, timer, nArmed, exitCode, exitFrom, nPolls,
                   nInitErr, idleMs>>

\* ------------------------------------------------------------------ time
Suspended ==
    \/ pc \in {"poll", "errPost", "respPost", "delay"}
    \/ pc = "invoke" /\ ~handlerSync

\* Time passes: d ms, or less when a timer is due sooner.  While the
\* program is suspended a timer that is due runs before any more time
\* passes; a handler that blocks the event loop holds the timeout callback
\* back.
Advance(d) ==
    /\ pc \in {"poll", "invoke", "errPost", "respPost", "delay"}
    /\ timer > 0
    /\ delayLeft # 0
    /\ LET e == IF delayLeft = NoTimer THEN Min(d, timer)
                ELSE Min(d, Min(timer, delayLeft))
       IN /\ timer' = timer - e
          /\ delayLeft' = IF delayLeft = NoTimer THEN NoTimer
                          ELSE delayLeft - e
          /\ idleMs' = IF pc = "poll"
                       THEN Min(idleMs + e, IdleWindowMs + 1)
                       ELSE idleMs
    /\ UNCHANGED <<fsVars, loopVars, pc, inflight, exitCode, exitFrom,
                   nPolls, nInitErr, inv, nArmed>>

\* The timeout callback without the exit: the timer is merely used up.
WatchdogFireNoExit ==
    /\ Suspended
    /\ timer = 0
    /\ timer' = NoTimer
    /\ nArmed' = 0
    /\ exitCode' = 0
    /\ exitFrom' = pc
    /\ UNCHANGED <<fsVars, loopVars, pc, inflight, delayLeft, nPolls,
                   nInitErr, inv, idleMs>>

\* Lines 90-92: the timeout callback runs process.exit(0).
WatchdogFire ==
    /\ Suspended
    /\ timer = 0
    /\ ProcessExit(0)
    /\ UNCHANGED <<fsVars, loopVars, inflight, nPolls, nInitErr, inv, idleMs>>

Next ==
    \/ ResolveOk
    \/ ResolveFails
    \/ InitErrorResolves
    \/ InitErrorRejects
    \/ InitErrorNeverSettles
    \/ \E result \in PollResults, sync \in BOOLEAN : PollResolves(result, sync)
    \/ PollRejects
    \/ \E v \in RetVals : HandlerReturns(v)
    \/ \E ex \in Thrown : HandlerThrows(ex)
    \/ ErrorPostResolves
    \/ ErrorPostRejects
    \/ \E status \in StatusCodes : ResponsePostResolves(status)
    \/ ResponsePostRejects
    \/ DelayDone
    \/ \E d \in {TimeStep} : Advance(d)
    \/ WatchdogFire

Spec == Init /\ [][Next]_vars

\* Startup only (lines 9-85 and the first loop head), over every file system.
NextResolve ==
    \/ ResolveOk
    \/ ResolveFails
    \/ InitErrorResolves
    \/ InitErrorRejects
    \/ InitErrorNeverSettles

SpecResolve == InitResolve /\ [][NextResolve]_vars

\* ================================================================ claims
Ended == pc \in {"exited", "crashed", "unsettled"}
Deliveries == {r \in inflight : r.path # NextPath /\ r.path # InitErrorPath}

\* C1: at most one invocation is alive at a time.  While a GET
\* /runtime/invocation/next is in flight the latest invocation is no longer
\* alive (its delivery has completed) and no handler call is in progress; an
\* invocation gets one handler call, and no request is in flight while the
\* handler runs.
C1_OneInvocationAlive ==
    /\ Cardinality(inflight) <= 1
    /\ \A r \in inflight : r.path = NextPath => ~inv.alive /\ pc # "invoke"
    /\ pc = "invoke" => inflight = {} /\ inv.alive
    /\ inv.nCalls <= 1

\* A second poll is in flight after an invocation was answered.
C1_Witness ==
    /\ pc = "poll"
    /\ nPolls >= 2
    /\ inv.nRespOk = 1
    /\ \E r \in inflight : r.path = NextPath

\* C2: every error POST and response POST carries, in its path, the
\* lambda-runtime-aws-request-id header value of the most recent poll that
\* was answered (as a template literal renders it).
C2_DeliveryEchoesRequestId ==
    \A r \in Deliveries :
        /\ inv.polled
        /\ Len(r.path) = 4
        /\ r.path[3] = TemplateStr(inv.hdr)

\* A response POST for r2 is in flight for a second or later invocation.
C2_Witness ==
    /\ nPolls >= 2
    /\ inv.hdr = "r2"
    /\ \E r \in inflight : r.path = <<"runtime", "invocation", "r2", "response">>

\* C3: once the handler has returned a value, the worker neither polls again
\* nor ends before a response POST for that invocation has succeeded.
C3_ResultNeverLost ==
    (inv.outcome = "returned" /\ inv.nRespOk = 0) =>
        pc \in {"respPost", "delay"}

\* C4: when the handler call throws, whatever the value, exactly one
\* invocation-error POST is sent and no response POST, and the loop polls
\* again: the worker ends only by the timer while it waits in a later poll.
C4_ThrowReportedOnce ==
    inv.outcome = "threw" =>
        /\ inv.nErr = 1
        /\ inv.nResp = 0
        /\ \/ pc \in {"errPost", "poll"}
           \/ pc = "exited" /\ exitFrom = "poll"

\* C5: a transport failure of the invocation-error POST is swallowed: no
\* retry, no crash, the loop goes on to the next poll.
C5_ErrorPostFailureSwallowed ==
    inv.errFailed =>
        /\ inv.nErr = 1
        /\ \/ pc = "poll"
           \/ pc = "exited" /\ exitFrom = "poll"

\* C6: when handler resolution fails and the worker has ended, exactly one
\* POST /runtime/init/error was sent, the exit code is 1 and no poll was
\* issued.
C6_InitFailureReported ==
    (ResolutionThrows(file, module) # NoThrow /\ Ended) =>
        /\ nInitErr = 1
        /\ exitCode = 1
        /\ nPolls = 0

\* C7: the worker does not go on waiting for an invocation for longer than
\* the idle window of 900 seconds: by then the timer has ended it.
C7_IdleExit ==
    pc = "poll" => idleMs <= IdleWindowMs

\* C8: when the timeout callback runs while a poll is in flight, the worker
\* ends at once with exit code 0, the poll is left unanswered, and nothing
\* at all happens after the exit (no poll, no POST).
C8_WatchdogExitTerminal ==
    [][/\ (pc = "poll" /\ timer = 0 /\ timer' = NoTimer) =>
            (pc' = "exited" /\ exitCode' = 0 /\ inflight' = inflight)
       /\ exitCode = 0 => UNCHANGED vars]_vars

\* The worker ended by the timer with its poll still in flight.
C8_Witness ==
    /\ pc = "exited"
    /\ exitFrom = "poll"
    /\ exitCode = 0
    /\ \E r \in inflight : r.path = NextPath

\* C9: at the moment a poll returns an invocation (the handler is called)
\* the timer is armed with the full idle window.
C9_ResetOnPollSuccess ==
    [][(pc = "poll" /\ pc' = "invoke") => timer' = IdleWindowMs]_vars

\* C10: exit code 0 is reached only while waiting in a poll, never during a
\* handler call or a delivery.
C10_ExitZeroOnlyWhenAwaiting ==
    exitCode = 0 => exitFrom = "poll"

\* C11: every poll that is answered is followed, before the next poll, by
\* one handler call and a delivery (error POST, or answered response POST)
\* for it, whatever its body contains.
C11_PolledInvocationHandled ==
    (pc = "poll" /\ inv.polled) =>
        /\ inv.nCalls = 1
        /\ inv.nErr = 1 \/ inv.nRespOk = 1

\* C12: a response delivery that fails k times and then succeeds makes
\* exactly k+1 POST attempts, one of which succeeds; at least 500 ms lie
\* between a failed attempt and the next one; nothing is sent after the
\* success.
C12_ResponseRetryCount ==
    /\ inv.nRespOk <= 1
    /\ inv.nRespOk = 1 => inv.nResp = inv.nRespFail + 1 /\ pc # "respPost"
    /\ pc = "respPost" =>
        /\ inv.nResp = inv.nRespFail + 1
        /\ inv.nRespFail > 0 => inv.failAt - timer >= RetryDelayMs

\* The response was delivered at the third attempt.
C12_Witness ==
    /\ inv.nRespOk = 1
    /\ inv.nRespFail = 2
    /\ inv.nResp = 3

\* C13: a poll that fails at the transport level is followed at once by
\* another GET /runtime/invocation/next: no time passes, no sleep is
\* started, nothing is reported, the handler is not called, however many
\* polls failed before.
C13_PollRetriedAtOnce ==
    [][inv'.pollFails = inv.pollFails + 1 =>
          /\ pc' = "poll"
          /\ nPolls' = nPolls + 1
          /\ inflight' = {Req("GET", NextPath, NoBody)}
          /\ delayLeft' = NoTimer
          /\ idleMs' = idleMs
          /\ inv'.nCalls = inv.nCalls
          /\ inv'.nErr = inv.nErr
          /\ nInitErr' = nInitErr]_vars

\* A third poll is in flight after two polls failed in a row.
C13_Witness ==
    /\ pc = "poll"
    /\ inv.pollFails = 2
    /\ nPolls = 3

\* C14: once the init-error POST has been sent, whatever becomes of it
\* (answered, or failed at the transport level) the next thing that happens
\* ends the worker with exit code 1: one report was sent, no poll.
C14_InitErrorNotRetried ==
    [][pc = "initErr" =>
          /\ pc' \in {"exited", "crashed", "unsettled"}
          /\ exitCode' = 1
          /\ nInitErr' = 1
          /\ nPolls' = 0
          /\ inflight' = {}]_vars

\* C15: the worker ends with exit code 0 only by the timer, and with exit
\* code 1 only during startup (handler resolution and its report); nothing
\* that fails after startup ends it.
C15_OnlyTwoWaysToEnd ==
    Ended =>
        \/ exitCode = 0 /\ pc = "exited"
        \/ exitCode = 1 /\ exitFrom \in {"resolve", "initErr"}

\* C16: the handler is called only after its poll was answered, and an
\* error or response POST is sent only after the handler call completed.
C16_ProgramOrder ==
    /\ pc = "invoke" =>
        /\ inv.polled
        /\ inv.outcome = "running"
        /\ inv.nErr = 0 /\ inv.nResp = 0
        /\ inflight = {}
    /\ (inv.nErr > 0 \/ inv.nResp > 0 \/ Deliveries # {}) =>
        /\ inv.nCalls = 1
        /\ inv.outcome \in {"returned", "threw"}

\* An error POST is in flight after the handler call threw.
C16_Witness ==
    /\ pc = "errPost"
    /\ inv.outcome = "threw"
    /\ Deliveries # {}

\* C17: while the handler runs, its context carries the two header values
\* of the poll that produced this invocation and its event is that poll's
\* parsed body.
C17_ContextFromSamePoll ==
    pc = "invoke" =>
        /\ context.awsRequestId = inv.hdr
        /\ context.invokedFunctionArn = inv.arn
        /\ inv.body \in {"{\"name\":\"x\"}", "42"}
        /\ inv.body = "{\"name\":\"x\"}" => request = "obj{name:x}"
        /\ inv.body = "42" => request = "num42"

\* A later handler call runs with the headers r2 / arnB and the body 42.
C17_Witness ==
    /\ pc = "invoke"
    /\ nPolls >= 2
    /\ context = [awsRequestId |-> "r2", invokedFunctionArn |-> "arnB"]
    /\ request = "num42"

\* C18: the file chosen is the earliest existing one in the order .js,
\* .jsx, .mjs, .cjs and it is loaded: with a module that loads and has the
\* export, resolution fails (the init error is reported) exactly when no
\* candidate exists.
C18_Order == <<".js", ".jsx", ".mjs", ".cjs">>
C18_FirstExistingWins ==
    /\ file = UNDEFINED <=> exists = {}
    /\ file # UNDEFINED =>
        \E i \in 1..4 :
            /\ file = C18_Order[i]
            /\ file \in exists
            /\ \A j \in 1..(i - 1) : C18_Order[j] \notin exists
    /\ (module = "good" /\ pc # "resolve") =>
        (nInitErr > 0 <=> exists = {})

\* C19: at most one POST /runtime/init/error is sent, only when handler
\* resolution failed, and never once a poll was issued.
C19_InitErrorOneShot ==
    /\ nInitErr <= 1
    /\ nInitErr = 1 =>
        /\ ResolutionThrows(file, module) # NoThrow
        /\ nPolls = 0
    /\ \A r \in inflight : r.path = InitErrorPath => nInitErr = 1 /\ nPolls = 0

\* The report was answered and the worker exited with code 1.
C19_Witness ==
    /\ nInitErr = 1
    /\ pc = "exited"
    /\ exitCode = 1

\* C20: an invocation gets deliveries of one kind only: error POSTs only
\* when the handler threw, response POSTs only when it returned.
C20_OneKindOfDelivery ==
    /\ inv.nErr > 0 => inv.nResp = 0 /\ inv.outcome = "threw"
    /\ inv.nResp > 0 => inv.nErr = 0 /\ inv.outcome = "returned"
    /\ \A r \in Deliveries :
        /\ r.path[4] = "error" => inv.outcome = "threw"
        /\ r.path[4] = "response" => inv.outcome = "returned"

\* The error report was answered and the loop polls again.
C20_Witness ==
    /\ pc = "poll"
    /\ inv.outcome = "threw"
    /\ inv.nErr = 1
    /\ inv.nResp = 0
    /\ ~inv.alive

\* C21: between the attempts of one response delivery nothing changes but
\* the attempt count: no poll is sent, the handler is not called, context
\* and result stay, and every further attempt is the same request (path
\* and body) as the one before.
C21_RetryChangesNothing ==
    [][/\ (pc \in {"respPost", "delay"} /\ pc' \in {"respPost", "delay"}) =>
            (/\ nPolls' = nPolls
             /\ inv'.nCalls = inv.nCalls
             /\ context' = context
             /\ response' = response)
       /\ (pc = "delay" /\ pc' = "respPost" /\ inv.nResp > 0) =>
            (/\ inflight' = {inv.sent}
             /\ inv'.nResp = inv.nResp + 1)
       /\ pc = "delay" => pc' \in {"delay", "respPost", "exited"}]_vars

\* The second attempt for r1 is in flight, identical to the first.
C21_Witness ==
    /\ pc = "respPost"
    /\ inv.hdr = "r1"
    /\ inv.nResp = 2
    /\ inflight = {Req("POST", <<"runtime", "invocation", "r1", "response">>,
                       <<"{\"ok\":true}">>)}

\* C22: the timer is set to the full 15 minutes exactly when a poll is
\* sent (after a delivery as well as after a failed poll); in every other
\* step it only runs down or is dropped: not re-armed when the poll is
\* answered, nor during response retries.
C22_RearmedOnlyAtLoopHead ==
    [][/\ nPolls' = nPolls + 1 => timer' = IdleWindowMs
       /\ nPolls' = nPolls => timer' <= timer]_vars

\* A third poll, sent after a delivered response and then a failed poll,
\* has the full window.
C22_Witness ==
    /\ pc = "poll"
    /\ nPolls = 3
    /\ inv.nRespOk = 1
    /\ inv.pollFails = 1
    /\ timer = IdleWindowMs

\* C23: at most one 15 minute timeout is armed at any time, it is the one
\* of the current iteration, and none is armed during initialization.
C23_OneTimerArmed ==
    /\ nArmed <= 1
    /\ nArmed = 1 <=> timer # NoTimer
    /\ pc \in {"resolve", "initErr"} => nArmed = 0

\* The third iteration runs with a single armed timeout.
C23_Witness ==
    /\ pc = "poll"
    /\ nPolls = 3
    /\ nArmed = 1

\* C24: the status code of a reply is never looked at: a response POST that
\* got a reply, whatever its status, ended the retry loop, and a poll reply
\* with a parseable body, whatever its status, led to a handler call.
C24_StatusIgnored ==
    /\ inv.respStatus # 0 =>
        /\ inv.nRespOk = 1
        /\ inv.nResp = inv.nRespFail + 1
        /\ pc \notin {"respPost", "delay"}
    /\ (inv.polled /\ inv.body \in {"{\"name\":\"x\"}", "42"}) =>
        inv.nCalls = 1

\* Poll and response POST were both answered with status 500, and the loop
\* polls again.
C24_Witness ==
    /\ pc = "poll"
    /\ inv.pollStatus = 500
    /\ inv.respStatus = 500
    /\ inv.nRespOk = 1

\* C25: a poll reply whose body is not JSON is handled like a failed poll:
\* no handler call, no error or response POST for its request id, and the
\* next poll is sent at once with fresh locals.
C25_UnparseablePollRetried ==
    (inv.polled /\ inv.body = "<html>") =>
        /\ inv.nCalls = 0
        /\ inv.nErr = 0
        /\ inv.nResp = 0
        /\ Deliveries = {}
        /\ \/ pc = "poll"
           \/ pc = "exited" /\ exitFrom = "poll"
        /\ pc = "poll" =>
            /\ inflight = {Req("GET", NextPath, NoBody)}
            /\ delayLeft = NoTimer
            /\ context = EmptyContext
            /\ request = UNDEFINED

\* A reply for r1 with an HTML body was dropped and the second poll is out.
C25_Witness ==
    /\ pc = "poll"
    /\ nPolls = 2
    /\ inv.polled
    /\ inv.hdr = "r1"
    /\ inv.body = "<html>"

\* C26: while the handler runs, the global request id is the request id of
\* the invocation being handled; the global changes only in the step that
\* calls the handler, not on failed polls, deliveries or retries.
C26_GlobalRequestId ==
    /\ [](pc = "invoke" => globalReqId = inv.hdr)
    /\ [][(pc = "poll" /\ pc' = "invoke") \/ globalReqId' = globalReqId]_vars

\* A later handler call runs with the global set to r2.
C26_Witness ==
    /\ pc = "invoke"
    /\ nPolls >= 2
    /\ inv.hdr = "r2"
    /\ globalReqId = "r2"

\* C27: whatever the handler returned or threw, unless a delivery POST
\* failed at the transport level the worker is not brought down by an
\* exception: the iteration can go on to the next poll.
C27_IterationProgress ==
    (inv.outcome \in {"returned", "threw"} /\ ~inv.errFailed) =>
        pc # "crashed"

====
